---- MODULE Spec2Model ----
(***************************************************************************)
(* Model of src/src/App.tsx: the prey motion loop (animate, driven by      *)
(* requestAnimationFrame), the catch handler, the scale-pulse timer and    *)
(* the session controls.                                                   *)
(*                                                                         *)
(* Numbers are fixed point.  Speeds and the prey scale are counted in      *)
(* quarters (speed 3 is 12, scale 1.5 is 6), velocity components in halves *)
(* of a pixel per tick (dx = 2 is 4), positions in eighths of a pixel, so  *)
(* that x += dx * speed is exact.  A rotated velocity is rounded to the    *)
(* nearest half pixel, as a float rounds to its precision.  Headings are   *)
(* whole degrees.                                                          *)
(***************************************************************************)
EXTENDS Integers, FiniteSets, Sequences, TLC

VARIABLES mounted, gameState, isPlaying, dimensions, prey, velocityRef,
          requestRef, rafQueue, timers, catches, budget, frames, last

vars == <<mounted, gameState, isPlaying, dimensions, prey, velocityRef,
          requestRef, rafQueue, timers, catches, budget, frames, last>>

----------------------------------------------------------------------------
(* Bounds of the model *)

\* user and environment events (clicks, slider moves, resizes, jitters) per run
MaxEvents == 2

\* animation frames in which animate moves the prey per run
MaxFrames == 5

\* Math.random() is drawn from { n / RandomDen : n \in 0 .. RandomDen - 1 }
RandomDen == 2

----------------------------------------------------------------------------
(* Units *)

Px(n) == 8 * n            \* a length in pixels, as a position
Vel(n) == 2 * n           \* a velocity component in pixels per tick

Abs(n) == IF n < 0 THEN -n ELSE n

\* round(n / d) for d > 0, halves rounded up
RoundDiv(n, d) == (2 * n + d) \div (2 * d)

----------------------------------------------------------------------------
(* Program constants *)

Margin == 50              \* x < 50 || x > dimensions.width - 50
TeleportInset == 100      \* Math.random() * (dimensions.width - 100) + 50
ScaleNormal == 4          \* scale: 1
ScaleEnlarged == 6        \* scale: 1.5
InitialSpeed == 12        \* speed: 3
SliderMin == 4            \* min="1"
SliderMax == 40           \* max="10"
SliderStep == 2           \* step="0.5"

\* window.innerWidth x window.innerHeight, in pixels
Viewports == { [width |-> 120, height |-> 110],
               [width |-> 106, height |-> 110],
               [width |-> 90,  height |-> 110] }

\* the window the page is opened in
InitialViewport == [width |-> 120, height |-> 110]

\* positions the slider thumb is asked to take, in quarters: 0.5, 2.25, 2.5, 11
SpeedRequests == { 2, 9, 10, 44 }

\* the jitter angle (Math.random() - 0.5) * 0.5 lies in [-0.25, 0.25) rad;
\* the model draws it from +-atan(9/40) = +-0.2213 rad, whose cos and sin
\* are the rationals 40/41 and 9/41
JitterAngles == { [cos |-> 40, sin |-> 9, den |-> 41],
                  [cos |-> 40, sin |-> -9, den |-> 41] }

NoJitter == [cos |-> 1, sin |-> 0, den |-> 1]

----------------------------------------------------------------------------
(* Math.atan2(dy, dx) * (180 / Math.PI), rounded down to a whole degree    *)

\* round(10000 * tan(d deg)) for d = 0 .. 45, at index d + 1
TanTable == << 0, 175, 349, 524, 699, 875, 1051, 1228, 1405, 1584, 1763,
               1944, 2126, 2309, 2493, 2679, 2867, 3057, 3249, 3443, 3640,
               3839, 4040, 4245, 4452, 4663, 4877, 5095, 5317, 5543, 5774,
               6009, 6249, 6494, 6745, 7002, 7265, 7536, 7813, 8098, 8391,
               8693, 9004, 9325, 9657, 10000 >>

\* the angle of (q, p), 0 <= p <= q, q > 0, in degrees: 0 .. 45
OctantDeg(p, q) ==
  CHOOSE d \in 0 .. 45 :
    /\ TanTable[d + 1] * q <= 10000 * p
    /\ \A e \in (d + 1) .. 45 : TanTable[e + 1] * q > 10000 * p

Atan2Deg(dy, dx) ==
  LET ax == Abs(dx)
      ay == Abs(dy)
      a  == IF ax = 0 /\ ay = 0 THEN 0
            ELSE IF ay <= ax THEN OctantDeg(ay, ax)
            ELSE 90 - OctantDeg(ax, ay)
  IN  IF dx >= 0 THEN (IF dy >= 0 THEN a ELSE -a)
      ELSE (IF dy >= 0 THEN 180 - a ELSE a - 180)

----------------------------------------------------------------------------
(* The speed slider: <input type="range" min="1" max="10" step="0.5">      *)

\* a slider that snaps to its step but ignores min and max
RangeValueUnclamped(req) ==
  SliderMin + RoundDiv(req - SliderMin, SliderStep) * SliderStep

\* the value the range input takes when its thumb is asked to go to req:
\* clamped to [min, max], then snapped to the nearest min + k * step
RangeValue(req) ==
  LET clamped == IF req < SliderMin THEN SliderMin
                 ELSE IF req > SliderMax THEN SliderMax ELSE req
  IN  SliderMin + RoundDiv(clamped - SliderMin, SliderStep) * SliderStep

\* e.target.value: the value as a decimal string, "2.5" is <<2, 5>>
ValueString(q) == [whole |-> q \div 4, tenths |-> ((q % 4) * 10) \div 4]

\* parseFloat of such a string, in quarters
ParseFloat(str) == 4 * str.whole + (4 * str.tenths) \div 10

----------------------------------------------------------------------------
(* requestAnimationFrame / cancelAnimationFrame                            *)

Handles(queue) == { c.id : c \in queue }

\* the handle a new request gets: one no pending or remembered request has
NewHandle(queue, ref) ==
  CHOOSE i \in 1 .. (Cardinality(queue) + 2) :
    /\ i \notin Handles(queue) \cup {ref}
    /\ \A j \in 1 .. (i - 1) : j \in Handles(queue) \cup {ref}

\* the callback animate closes over isPlaying, dimensions and gameState.speed
Closure(playing, dims, speed) ==
  [isPlaying |-> playing, dimensions |-> dims, speed |-> speed]

RequestAnimationFrame(queue, id, closure) ==
  queue \cup { [id |-> id, animate |-> closure] }

\* a cleanup that cancels nothing
CancelNothing(queue, id) == queue

CancelAnimationFrame(queue, id) == { c \in queue : c.id # id }

\* the effect on [animate]: the cleanup of the previous effect, then
\* requestRef.current = requestAnimationFrame(animate)
EffectCleanup(queue, ref) ==
  IF ref # 0 THEN CancelAnimationFrame(queue, ref) ELSE queue

Restart(playing, dims, speed) ==
  LET cleaned == EffectCleanup(rafQueue, requestRef)
      id == NewHandle(cleaned, requestRef)
  IN  /\ requestRef' = id
      /\ rafQueue' = RequestAnimationFrame(cleaned, id,
                                           Closure(playing, dims, speed))

----------------------------------------------------------------------------
(* animate: the updater passed to setPrey                                  *)

OutOfBounds(pos, dim) == pos < Px(Margin) \/ pos > Px(dim) - Px(Margin)

\* the early return left out
ReturnsNever(closure) == FALSE

\* if (!isPlaying) return;
Returns(closure) == ~closure.isPlaying

\* velocityRef.current.dx *= -1
Negate(c) == -c

\* rotation of (dx, dy) by the jitter angle a
Rotate(v, a) ==
  [dx |-> RoundDiv(v.dx * a.cos - v.dy * a.sin, a.den),
   dy |-> RoundDiv(v.dx * a.sin + v.dy * a.cos, a.den)]

\* atan2 with its arguments exchanged
HeadingSwapped(v) == Atan2Deg(v.dx, v.dy)

Heading(v) == Atan2Deg(v.dy, v.dx)

\* the vector the jitter rotates: the locals dx, dy read at the top of the
\* updater (local), not velocityRef.current after the bounces (current)
JitterInput(local, current) == local

\* one run of the updater: the prey and velocity it leaves, and what it did
Step(p, v, speed, dims, jit) ==
  LET x  == p.x + v.dx * speed
      y  == p.y + v.dy * speed
      bx == OutOfBounds(x, dims.width)
      v1 == IF bx THEN [v EXCEPT !.dx = Negate(v.dx)] ELSE v
      r1 == IF bx THEN Heading(v1) ELSE p.rotation
      by == OutOfBounds(y, dims.height)
      v2 == IF by THEN [v1 EXCEPT !.dy = Negate(v1.dy)] ELSE v1
      r2 == IF by THEN Heading(v2) ELSE r1
      j  == jit # NoJitter
      v3 == IF j THEN Rotate(JitterInput(v, v2), jit) ELSE v2
      r3 == IF j THEN Heading(v3) ELSE r2
  IN  [prey |-> [p EXCEPT !.x = x, !.y = y, !.rotation = r3],
       velocity |-> v3, bounceX |-> bx, bounceY |-> by]

----------------------------------------------------------------------------
(* handlePreyCatch                                                         *)

\* the teleport drawn over the whole dimension
TeleportNoInset(n, dim) == (n * Px(dim)) \div RandomDen + Px(Margin)

\* Math.random() * (dim - 100) + 50 with Math.random() = n / RandomDen
Teleport(n, dim) == (n * Px(dim - TeleportInset)) \div RandomDen + Px(Margin)

\* a catch counted twice
IncrementTwice(score) == score + 2

Increment(score) == score + 1

\* a revert that leaves the scale enlarged
PulseKeep(p) == p

PulseRevert(p) == [p EXCEPT !.scale = ScaleNormal]

----------------------------------------------------------------------------
(* History: what the last step was                                         *)

Did(op) == [op |-> op, ran |-> FALSE, bounceX |-> FALSE, bounceY |-> FALSE,
            jitter |-> NoJitter, req |-> 0]

Ops == { "init", "tick", "catch", "revert", "toggle", "reset",
         "speed", "resize", "unmount" }

----------------------------------------------------------------------------
(* State *)

Init ==
  /\ mounted = TRUE
  /\ gameState = [score |-> 0, speed |-> InitialSpeed]
  /\ isPlaying = TRUE
  /\ dimensions = InitialViewport
  /\ prey = [x |-> Px(dimensions.width) \div 2,
             y |-> Px(dimensions.height) \div 2,
             rotation |-> 0, scale |-> ScaleNormal]
  /\ velocityRef = [dx |-> Vel(2), dy |-> Vel(2)]
  /\ requestRef = 1
  /\ rafQueue = RequestAnimationFrame({}, 1,
                   Closure(TRUE, dimensions, InitialSpeed))
  /\ timers = 0
  /\ catches = 0
  /\ budget = MaxEvents
  /\ frames = MaxFrames
  /\ last = Did("init")

\* a scheduled animate callback runs
Tick(c, jit) ==
  /\ c \in rafQueue
  /\ jit # NoJitter => budget > 0 /\ ~Returns(c.animate) /\ mounted
  /\ ~Returns(c.animate) => frames > 0
  /\ IF Returns(c.animate)
     THEN /\ rafQueue' = rafQueue \ {c}
          /\ last' = Did("tick")
          /\ UNCHANGED <<prey, velocityRef, requestRef, budget, frames>>
     ELSE LET s == Step(prey, velocityRef, c.animate.speed,
                        c.animate.dimensions, jit)
              id == NewHandle(rafQueue \ {c}, requestRef)
          IN  /\ IF mounted
                 THEN prey' = s.prey /\ velocityRef' = s.velocity
                 ELSE UNCHANGED <<prey, velocityRef>>
              /\ requestRef' = id
              /\ rafQueue' = RequestAnimationFrame(rafQueue \ {c}, id, c.animate)
              /\ budget' = IF jit # NoJitter THEN budget - 1 ELSE budget
              /\ frames' = frames - 1
              /\ last' = [op |-> "tick", ran |-> TRUE, bounceX |-> s.bounceX,
                          bounceY |-> s.bounceY, jitter |-> jit,
                          req |-> 0]
  /\ UNCHANGED <<mounted, gameState, isPlaying, dimensions, timers, catches>>

\* the play/pause button
TogglePlay ==
  /\ mounted /\ budget > 0
  /\ isPlaying' = ~isPlaying
  /\ Restart(~isPlaying, dimensions, gameState.speed)
  /\ budget' = budget - 1
  /\ last' = Did("toggle")
  /\ UNCHANGED <<frames, mounted, gameState, dimensions, prey, velocityRef, timers, catches>>

\* the Reset Score button
ResetScore ==
  /\ mounted /\ budget > 0
  /\ gameState' = [gameState EXCEPT !.score = 0]
  /\ catches' = 0
  /\ budget' = budget - 1
  /\ last' = Did("reset")
  /\ UNCHANGED <<frames, mounted, isPlaying, dimensions, prey, velocityRef,
                 requestRef, rafQueue, timers>>

\* the speed slider is moved to req
SetSpeed(req) ==
  LET speed == ParseFloat(ValueString(RangeValue(req)))
  IN  /\ mounted /\ budget > 0
      /\ gameState' = [gameState EXCEPT !.speed = speed]
      /\ IF speed # gameState.speed
         THEN Restart(isPlaying, dimensions, speed)
         ELSE UNCHANGED <<requestRef, rafQueue>>
      /\ budget' = budget - 1
      /\ last' = [Did("speed") EXCEPT !.req = req]
      /\ UNCHANGED <<frames, mounted, isPlaying, dimensions, prey, velocityRef, timers, catches>>

\* the window is resized: handleResize
Resize(vp) ==
  /\ mounted /\ budget > 0
  /\ vp # dimensions
  /\ dimensions' = vp
  /\ Restart(isPlaying, vp, gameState.speed)
  /\ budget' = budget - 1
  /\ last' = Did("resize")
  /\ UNCHANGED <<frames, mounted, gameState, isPlaying, prey, velocityRef, timers, catches>>

\* the prey is clicked or tapped: handlePreyCatch
Catch(nx, ny) ==
  /\ mounted /\ budget > 0
  /\ gameState' = [gameState EXCEPT !.score = Increment(gameState.score)]
  /\ catches' = catches + 1
  /\ prey' = [prey EXCEPT !.scale = ScaleEnlarged,
                          !.x = Teleport(nx, dimensions.width),
                          !.y = Teleport(ny, dimensions.height)]
  /\ timers' = timers + 1
  /\ budget' = budget - 1
  /\ last' = Did("catch")
  /\ UNCHANGED <<frames, mounted, isPlaying, dimensions, velocityRef, requestRef, rafQueue>>

\* a setTimeout(..., 100) callback of a catch runs
Revert ==
  /\ timers > 0
  /\ timers' = timers - 1
  /\ prey' = IF mounted THEN PulseRevert(prey) ELSE prey
  /\ last' = Did("revert")
  /\ UNCHANGED <<mounted, gameState, isPlaying, dimensions, velocityRef,
                 requestRef, rafQueue, catches, budget, frames>>

\* the component is torn down: the effects' cleanups run
Unmount ==
  /\ mounted /\ budget > 0
  /\ mounted' = FALSE
  /\ rafQueue' = EffectCleanup(rafQueue, requestRef)
  /\ budget' = budget - 1
  /\ last' = Did("unmount")
  /\ UNCHANGED <<frames, gameState, isPlaying, dimensions, prey, velocityRef,
                 requestRef, timers, catches>>

Next ==
  \/ \E c \in rafQueue, jit \in JitterAngles \cup {NoJitter} : Tick(c, jit)
  \/ TogglePlay
  \/ ResetScore
  \/ \E req \in SpeedRequests : SetSpeed(req)
  \/ \E vp \in Viewports : Resize(vp)
  \/ \E nx, ny \in 0 .. (RandomDen - 1) : Catch(nx, ny)
  \/ Revert
  \/ Unmount

Spec == Init /\ [][Next]_vars

----------------------------------------------------------------------------
(* Properties *)

InRange(pos, dim) == Px(Margin) <= pos /\ pos <= Px(dim) - Px(Margin)

PreyInRange == /\ InRange(prey.x, dimensions.width)
               /\ InRange(prey.y, dimensions.height)

\* the viewport leaves room for the two margins on both axes
RoomForMargins == /\ dimensions.width >= 2 * Margin
                  /\ dimensions.height >= 2 * Margin

Moved == last.op = "tick" /\ last.ran

\* C1: at the end of every tick that runs while playing, the prey lies within
\* [50, width - 50] x [50, height - 50], the tick of a bounce included.
PositionWithinMargins == (Moved /\ RoomForMargins) => PreyInRange

\* C2: a tick that runs while the game is paused changes neither the prey
\* (position, heading) nor the velocity.
PausedTickIsNoOp ==
  [][(~isPlaying /\ last'.op = "tick")
       => (prey' = prey /\ velocityRef' = velocityRef)]_vars

PausedTickRan == ~isPlaying /\ mounted /\ last.op = "tick" /\ rafQueue = {}

\* C3: the score equals the number of catches since the last score reset, or
\* since startup.
ScoreCountsCatches == gameState.score = catches

TwoCatchesScored == last.op = "catch" /\ catches = 2 /\ gameState.score = 2

\* C4 as claimed: a catch teleports the prey into [50, width - 50] x
\* [50, height - 50], whatever the viewport.
TeleportWithinMargins == last.op = "catch" => PreyInRange

\* C4 as amended: a catch teleports the prey into [50, width - 50] x
\* [50, height - 50] whenever the viewport is at least 100 wide and high.
TeleportWithinMarginsWithRoom ==
  (last.op = "catch" /\ RoomForMargins) => PreyInRange

TeleportedWithRoom ==
  /\ last.op = "catch" /\ RoomForMargins
  /\ prey.x > Px(Margin) /\ prey.y > Px(Margin)

SpeedInRange == gameState.speed \in SliderMin .. SliderMax

\* C5 as claimed: the stored speed is in [1, 10] in every state, and a
\* requested value inside [1, 10] is stored exactly.
SpeedStoredExactly ==
  /\ SpeedInRange
  /\ (last.op = "speed" /\ last.req \in SliderMin .. SliderMax)
       => gameState.speed = last.req

OnStep(req) == (req - SliderMin) % SliderStep = 0

\* C5 as amended: the stored speed is in [1, 10] in every state, and a
\* requested value inside [1, 10] that is a multiple of 0.5 is stored exactly.
SpeedStoredExactlyOnStep ==
  /\ SpeedInRange
  /\ (last.op = "speed" /\ last.req \in SliderMin .. SliderMax /\ OnStep(last.req))
       => gameState.speed = last.req

SpeedStoredOnStep ==
  /\ last.op = "speed" /\ last.req \in SliderMin .. SliderMax
  /\ OnStep(last.req) /\ gameState.speed = last.req /\ last.req # InitialSpeed

\* C6: at the end of a tick in which a bounce occurred, the heading is
\* atan2(dy, dx) in degrees of the velocity stored at the end of the tick.
BounceHeading ==
  (Moved /\ (last.bounceX \/ last.bounceY))
    => prey.rotation = Atan2Deg(velocityRef.dy, velocityRef.dx)

BouncedTo135 ==
  /\ Moved /\ (last.bounceX \/ last.bounceY)
  /\ velocityRef = [dx |-> Vel(-2), dy |-> Vel(2)]
  /\ prey.rotation = 135

\* C7: at most one animate callback is scheduled at any time, and none is
\* scheduled once the component is torn down.
SingleScheduledTick ==
  /\ Cardinality(rafQueue) <= 1
  /\ ~mounted => rafQueue = {}

TornDownAfterRestart ==
  ~mounted /\ rafQueue = {} /\ dimensions # InitialViewport /\ requestRef > 1

\* C8: a catch enlarges the scale to 1.5 and schedules a revert; a revert
\* changes only the scale; once no revert is pending the scale is 1.
ScalePulse ==
  /\ []((mounted /\ timers = 0) => prey.scale = ScaleNormal)
  /\ [][last'.op = "catch"
          => (prey'.scale = ScaleEnlarged /\ timers' = timers + 1)]_vars
  /\ [][(last'.op = "revert" /\ mounted)
          => (/\ prey' = [prey EXCEPT !.scale = ScaleNormal]
              /\ velocityRef' = velocityRef)]_vars

PulsesReverted ==
  /\ mounted /\ last.op = "revert" /\ timers = 0 /\ catches = 2
  /\ prey.scale = ScaleNormal

\* C9: in a tick with both a bounce and a jitter, the stored velocity is the
\* jitter rotation of the velocity after the bounce.
JitterRotatesBounced ==
  [][(/\ last'.op = "tick" /\ last'.ran /\ last'.jitter # NoJitter
      /\ (last'.bounceX \/ last'.bounceY))
       => velocityRef' =
            Rotate([dx |-> IF last'.bounceX THEN -velocityRef.dx
                           ELSE velocityRef.dx,
                    dy |-> IF last'.bounceY THEN -velocityRef.dy
                           ELSE velocityRef.dy], last'.jitter)]_vars

Plain(l) == l.op = "tick" /\ l.ran /\ l.jitter = NoJitter

\* the velocity is the initial one up to bounces: no jitter has turned it
Unjittered == Abs(velocityRef.dx) = Vel(2) /\ Abs(velocityRef.dy) = Vel(2)

\* C10: the prey is not stuck beyond a margin: of two ticks in a row (no
\* jitter, nothing changed in between) that both end with a coordinate
\* outside [50, dimension - 50], the second does not negate that axis's
\* velocity again.
NeverRenegated ==
  [][(Plain(last) /\ Plain(last') /\ Unjittered /\ RoomForMargins)
       => /\ ~(/\ last.bounceX /\ ~InRange(prey.x, dimensions.width)
               /\ last'.bounceX /\ ~InRange(prey'.x, dimensions.width))
          /\ ~(/\ last.bounceY /\ ~InRange(prey.y, dimensions.height)
               /\ last'.bounceY /\ ~InRange(prey'.y, dimensions.height))]_vars

====
